---- MODULE Spec2Model ----
(***************************************************************************)
(* vel0city: the BSP collision engine (src/src/bsp.rs) and the movement    *)
(* integrator (src/src/player/movement.rs).                                *)
(*                                                                         *)
(* Numbers.  The program computes in f32: every product, quotient and      *)
(* square root is rounded to the nearest representable value.  The model   *)
(* computes in decimal fixed point: a number is a multiple of 1/1000,      *)
(* held as its integer count of thousandths, and every product, quotient   *)
(* and square root is rounded to the nearest multiple of 1/1000.  Sums,    *)
(* differences and comparisons are exact.  All literals of the program     *)
(* (0.5, 0.7, 0.75, 1.01) are representable.                               *)
(***************************************************************************)
EXTENDS Integers, Sequences, FiniteSets, TLC

VARIABLES
    tree,      \* game.map.bsp: the static world
    pl,        \* game.players[playeridx]: pos, vel, halfextents, flags
    ticks,     \* number of move_player calls made so far
    trace,     \* observations of the latest move_player call
    held,      \* jump impulses applied since input.jump was last false
    ray,       \* argument of a cast_ray call on the tree
    cast,      \* its return value (Pending before the call)
    point,     \* argument of a contains_point call on the tree
    inside     \* its return value (NotAsked before the call)

vars == <<tree, pl, ticks, trace, held, ray, cast, point, inside>>

----------------------------------------------------------------------------
(* f32 arithmetic, as decimal fixed point: a number is its count of *)
(* thousandths                                                      *)

Abs(i) == IF i < 0 THEN -i ELSE i

\* n / d (d > 0) rounded to the nearest integer
RoundDiv(n, d) ==
    LET q == n \div d
        r == n % d
    IN  IF 2 * r >= d THEN q + 1 ELSE q

\* the literal n/d (d > 0) and the literal n
R(n, d) == RoundDiv(n * 1000, d)
I(n) == n * 1000
Zero == I(0)
One == I(1)

RAdd(a, b) == a + b
RNeg(a) == -a
RSub(a, b) == a - b
RMul(a, b) == RoundDiv(a * b, 1000)
RDiv(a, b) == IF b < 0 THEN RoundDiv(-(a * 1000), -b) ELSE RoundDiv(a * 1000, b)
RAbs(a) == Abs(a)
RLt(a, b) == a < b
RLe(a, b) == a <= b
RGt(a, b) == RLt(b, a)
RGe(a, b) == RLe(b, a)

\* na::clamp(val, min, max)
clamp(val, lo, hi) ==
    IF RGt(val, lo) THEN (IF RLt(val, hi) THEN val ELSE hi) ELSE lo

\* na::approx_eq for f32: |a - b| < 1.0e-6, which no two distinct multiples
\* of 1/1000 satisfy
approx_eq(a, b) == RAbs(RSub(a, b)) = 0

\* largest k with k * k <= n, by bisection on lo <= k < hi
RECURSIVE ISqrtIn(_, _, _)
ISqrtIn(n, lo, hi) ==
    IF hi - lo <= 1 THEN lo
    ELSE LET mid == (lo + hi) \div 2
             low == mid * mid <= n
         IN  ISqrtIn(n, IF low THEN mid ELSE lo, IF low THEN hi ELSE mid)

\* 46340 is the largest integer whose square is a 32-bit value
ISqrt(n) == ISqrtIn(n, 0, 46341)

\* f32::sqrt: the root of q thousandths is the root of 1000 * q millionths
Sqrt(q) ==
    LET m == q * 1000
        k == ISqrt(m)
    IN  IF m - k * k > k THEN k + 1 ELSE k

----------------------------------------------------------------------------
(* na::Vec3<f32> / na::Pnt3<f32> *)

Vec3(x, y, z) == [x |-> x, y |-> y, z |-> z]
VZero == Vec3(Zero, Zero, Zero)
VAdd(a, b) == Vec3(RAdd(a.x, b.x), RAdd(a.y, b.y), RAdd(a.z, b.z))
VSub(a, b) == Vec3(RSub(a.x, b.x), RSub(a.y, b.y), RSub(a.z, b.z))
VScale(a, k) == Vec3(RMul(a.x, k), RMul(a.y, k), RMul(a.z, k))
dot(a, b) == RAdd(RAdd(RMul(a.x, b.x), RMul(a.y, b.y)), RMul(a.z, b.z))
cross(a, b) ==
    Vec3(RSub(RMul(a.y, b.z), RMul(a.z, b.y)),
         RSub(RMul(a.z, b.x), RMul(a.x, b.z)),
         RSub(RMul(a.x, b.y), RMul(a.y, b.x)))
norm(a) == Sqrt(dot(a, a))
normalize(a) == LET l == norm(a) IN Vec3(RDiv(a.x, l), RDiv(a.y, l), RDiv(a.z, l))

----------------------------------------------------------------------------
(* bsp.rs: planes, rays, the tree *)

Plane(n, d) == [norm |-> n, dist |-> d]
InnerNode(p, pos, neg) == [plane |-> p, pos |-> pos, neg |-> neg]
Tree(inodes, leaves, root) == [inodes |-> inodes, leaves |-> leaves, root |-> root]
Ray(orig, dir, he) == [orig |-> orig, dir |-> dir, halfextents |-> he]

\* Option<CastResult>
None == [some |-> FALSE, toi |-> Zero, norm |-> VZero]
Some(toi, n) == [some |-> TRUE, toi |-> toi, norm |-> n]

\* Vec indexing: inodes[i as usize], leaves[(-i - 1) as usize]
InodeAt(t, i) == t.inodes[i + 1]
LeafAt(t, i) == t.leaves[(-i - 1) + 1]

point_on(plane) == VScale(plane.norm, plane.dist)

Front == [kind |-> "Front", toi |-> Zero]
Back == [kind |-> "Back", toi |-> Zero]
Span(toi) == [kind |-> "Span", toi |-> toi]

Pad(plane, r) ==
    RAdd(RAdd(RAbs(RMul(r.halfextents.x, plane.norm.x)),
              RAbs(RMul(r.halfextents.y, plane.norm.y))),
         RAbs(RMul(r.halfextents.z, plane.norm.z)))

StartDist(plane, r) == RSub(dot(r.orig, plane.norm), plane.dist)
EndDist(plane, r) == RSub(dot(VAdd(r.orig, r.dir), plane.norm), plane.dist)

\* test_ray without the guard for a start inside the pad band
test_ray_noband(plane, r) ==
    LET pad == Pad(plane, r)
        startdist == StartDist(plane, r)
        enddist == EndDist(plane, r)
        absstart == RAbs(startdist)
        totaldist == RAbs(RSub(startdist, enddist))
    IN  IF RGe(startdist, pad) /\ RGe(enddist, pad) THEN Front
        ELSE IF RLt(startdist, RNeg(pad)) /\ RLt(enddist, RNeg(pad)) THEN Back
        ELSE IF totaldist = Zero THEN Span(Zero)
        ELSE Span(RDiv(RSub(absstart, pad), totaldist))

test_ray(plane, r) ==
    LET pad == Pad(plane, r)
        startdist == StartDist(plane, r)
        enddist == EndDist(plane, r)
        absstart == RAbs(startdist)
        totaldist == RAbs(RSub(startdist, enddist))
    IN  IF RGe(startdist, pad) /\ RGe(enddist, pad) THEN Front
        ELSE IF RLt(startdist, RNeg(pad)) /\ RLt(enddist, RNeg(pad)) THEN Back
        ELSE IF RLe(absstart, pad) \/ totaldist = Zero THEN Span(Zero)
        ELSE Span(RDiv(RSub(absstart, pad), totaldist))

\* cast::Ray::split: <<the part before toi, the part after it>>
split(r, toi) ==
    <<Ray(r.orig, VScale(r.dir, toi), r.halfextents),
      Ray(VAdd(r.orig, VScale(r.dir, toi)), VScale(r.dir, RSub(One, toi)), r.halfextents)>>

\* JustFirstPlaneVisitor::visit_plane on the visitor's best
visit_plane(best, toi, n) ==
    IF best.some
    THEN (IF RLe(toi, best.toi) THEN Some(toi, n) ELSE best)
    ELSE Some(toi, n)

\* contains_point_recursive sending a point on the plane to the pos side
RECURSIVE contains_point_onplane_pos(_, _, _)
contains_point_onplane_pos(t, p, nodeidx) ==
    LET node == InodeAt(t, nodeidx)
        dir == VSub(p, point_on(node.plane))
    IN  IF RGe(dot(dir, node.plane.norm), Zero)
        THEN (IF node.pos < 0 THEN LeafAt(t, node.pos)
              ELSE contains_point_onplane_pos(t, p, node.pos))
        ELSE (IF node.neg < 0 THEN LeafAt(t, node.neg)
              ELSE contains_point_onplane_pos(t, p, node.neg))

RECURSIVE contains_point_recursive(_, _, _)
contains_point_recursive(t, p, nodeidx) ==
    LET node == InodeAt(t, nodeidx)
        dir == VSub(p, point_on(node.plane))
    IN  IF RGt(dot(dir, node.plane.norm), Zero)
        THEN (IF node.pos < 0 THEN LeafAt(t, node.pos)
              ELSE contains_point_recursive(t, p, node.pos))
        ELSE (IF node.neg < 0 THEN LeafAt(t, node.neg)
              ELSE contains_point_recursive(t, p, node.neg))

contains_point(t, p) == contains_point_recursive(t, p, t.root)

\* the sub-ray handed to the pos child, then the one handed to the neg child
SubRays(plane, r, toi) ==
    LET s == split(r, toi)
    IN  IF RGe(dot(r.dir, plane.norm), Zero) THEN <<s[1], s[2]>> ELSE <<s[2], s[1]>>

\* returns [hit, best]: the bool the code returns and the visitor after the call
RECURSIVE cast_ray_recursive(_, _, _, _)
cast_ray_recursive(t, r, nodeidx, best) ==
    IF nodeidx < 0 THEN [hit |-> LeafAt(t, nodeidx), best |-> best]
    ELSE
      LET node == InodeAt(t, nodeidx)
          pltest == test_ray(node.plane, r)
      IN  CASE pltest.kind = "Front" -> cast_ray_recursive(t, r, node.pos, best)
            [] pltest.kind = "Back" -> cast_ray_recursive(t, r, node.neg, best)
            [] OTHER ->
                 LET sub == SubRays(node.plane, r, pltest.toi)
                     first == cast_ray_recursive(t, sub[1], node.pos, best)
                     last == IF first.hit THEN first
                             ELSE cast_ray_recursive(t, sub[2], node.neg, first.best)
                 IN  IF last.hit
                     THEN [hit |-> TRUE,
                           best |-> visit_plane(last.best, pltest.toi, node.plane.norm)]
                     ELSE [hit |-> FALSE, best |-> last.best]

cast_ray(t, r) == cast_ray_recursive(t, r, t.root, None).best

----------------------------------------------------------------------------
(* player/movement.rs *)

PLAYER_ONGROUND == "PLAYER_ONGROUND"
PLAYER_JUMPED == "PLAYER_JUMPED"

Player(pos, vel, he, flags) ==
    [pos |-> pos, vel |-> vel, halfextents |-> he, flags |-> flags]

MoveInput(wishvel, jump, reset) == [wishvel |-> wishvel, jump |-> jump, reset |-> reset]

\* the position input.reset teleports to
ResetPos == Vec3(Zero, I(10), Zero)

\* clip_velocity without the 1.01 overbounce
clip_velocity_exact(vel, n) == VSub(vel, VScale(n, dot(vel, n)))

clip_velocity(vel, n) == VSub(vel, VScale(VScale(n, dot(vel, n)), R(101, 100)))

\* if input.reset { ... }
ApplyReset(p, input) ==
    IF input.reset THEN [p EXCEPT !.pos = ResetPos, !.vel = VZero, !.flags = {}] ELSE p

JumpFires(p, input) ==
    input.jump /\ PLAYER_ONGROUND \in p.flags /\ PLAYER_JUMPED \notin p.flags

\* if input.jump && ONGROUND { if !JUMPED { ... } /* insert(JUMPED) is commented out */ }
ApplyJump(p, input, ms) ==
    IF JumpFires(p, input)
    THEN [p EXCEPT !.vel.y = IF RGt(p.vel.y, ms.jumpspeed)
                             THEN RAdd(p.vel.y, ms.jumpspeed)
                             ELSE ms.jumpspeed,
                   !.flags = p.flags \ {PLAYER_ONGROUND}]
    ELSE p

SelAccel(p, ms) == IF PLAYER_ONGROUND \in p.flags THEN ms.accel ELSE ms.airaccel
SelFriction(p, ms) == IF PLAYER_ONGROUND \in p.flags THEN ms.friction ELSE Zero
SelSpeedcap(p, ms) == IF PLAYER_ONGROUND \in p.flags THEN ms.movespeed ELSE ms.airspeed

ApplyFriction(p, ms, dt) ==
    LET speed == norm(p.vel)
    IN  IF ~approx_eq(speed, Zero)
        THEN LET dir == normalize(p.vel)
                 removespeed ==
                     RMul(RMul(SelFriction(p, ms), dt),
                          IF RLt(speed, ms.speedeps) THEN ms.speedeps ELSE speed)
                 newspeed == clamp(RSub(speed, removespeed), Zero, ms.maxspeed)
             IN  [p EXCEPT !.vel = VScale(dir, newspeed)]
        ELSE p

\* the acceleration step with a symmetric clamp of addspeed
ApplyAccel_symmetric(p, input, ms, dt) ==
    LET horizvel == Vec3(p.vel.x, p.vel.y, p.vel.z)
        wishspeed == clamp(norm(input.wishvel), Zero, SelSpeedcap(p, ms))
    IN  IF ~approx_eq(wishspeed, Zero)
        THEN LET movedir == normalize(input.wishvel)
                 curspeed == dot(horizvel, movedir)
                 maxdelta == RMul(RMul(SelAccel(p, ms), ms.movespeed), dt)
                 addspeed == clamp(RSub(wishspeed, curspeed), RNeg(maxdelta), maxdelta)
             IN  [p EXCEPT !.vel = VAdd(p.vel, VScale(movedir, addspeed))]
        ELSE p

\* accel and speedcap were selected before friction ran; the flags have not
\* changed since
ApplyAccel(p, input, ms, dt) ==
    LET horizvel == Vec3(p.vel.x, p.vel.y, p.vel.z)
        wishspeed == clamp(norm(input.wishvel), Zero, SelSpeedcap(p, ms))
    IN  IF ~approx_eq(wishspeed, Zero)
        THEN LET movedir == normalize(input.wishvel)
                 curspeed == dot(horizvel, movedir)
                 maxdelta == RMul(RMul(SelAccel(p, ms), ms.movespeed), dt)
                 addspeed == clamp(RSub(wishspeed, curspeed), Zero, maxdelta)
             IN  [p EXCEPT !.vel = VAdd(p.vel, VScale(movedir, addspeed))]
        ELSE p

ApplyGravity(p, ms, dt) == [p EXCEPT !.vel.y = RSub(p.vel.y, RMul(ms.gravity, dt))]

\* move_player without the clamp after gravity
PostClamp_nocut(p, ms) == p

\* clamp velocity again after gravity
PostClamp(p, ms) ==
    LET speed == norm(p.vel)
    IN  IF ~approx_eq(speed, Zero)
        THEN LET dir == normalize(p.vel)
                 newspeed == clamp(speed, Zero, ms.maxspeed)
             IN  [p EXCEPT !.vel = VScale(dir, newspeed)]
        ELSE p

ResetJumped(p, input) ==
    IF ~input.jump THEN [p EXCEPT !.flags = p.flags \ {PLAYER_JUMPED}] ELSE p

\* everything move_player does before the collide-and-slide loop
PreSlide(p, input, ms, dt) ==
    ResetJumped(
        PostClamp(
            ApplyGravity(
                ApplyAccel(
                    ApplyFriction(ApplyJump(ApplyReset(p, input), input, ms), ms, dt),
                    input, ms, dt),
                ms, dt),
            ms),
        input)

\* for i in 0..numcontacts { clip; bad = some other contact faces v; if !bad break }
RECURSIVE ClipLoop(_, _, _, _)
ClipLoop(v, contacts, numcontacts, i) ==
    LET v1 == clip_velocity(v, contacts[i])
        bad == \E j \in (1..numcontacts) \ {i} : RLt(dot(contacts[j], v1), Zero)
    IN  IF ~bad \/ i = numcontacts THEN [v |-> v1, bad |-> bad]
        ELSE ClipLoop(v1, contacts, numcontacts, i + 1)

\* norm(v) < 0.75
TooSlow(v) == RLt(norm(v), R(3, 4))

\* the contact resolution without its final guard (line 172)
Resolve_noguard(vel, contacts, numcontacts) ==
    LET c == ClipLoop(vel, contacts, numcontacts, 1)
    IN  IF c.bad /\ numcontacts >= 2 THEN VZero ELSE c.v

\* the new velocity for the contacts held, from the pre-slide velocity vel
Resolve(vel, contacts, numcontacts) ==
    LET c == ClipLoop(vel, contacts, numcontacts, 1)
        v1 == IF c.bad
              THEN (IF numcontacts = 1 THEN clip_velocity(c.v, contacts[1])
                    ELSE IF numcontacts = 2
                    THEN LET movedir == normalize(c.v)
                             crease == cross(contacts[1], contacts[2])
                             along == VScale(crease, dot(c.v, crease))
                         IN  VScale(along,
                                    RAdd(One, RMul(R(1, 2), dot(movedir, contacts[1]))))
                    ELSE VZero)
              ELSE c.v
    IN  IF RLt(dot(v1, vel), Zero) \/ TooSlow(v1) THEN VZero ELSE v1

\* the resolution took the two-contact crease branch
Creased(vel, contacts, numcontacts) ==
    numcontacts = 2 /\ ClipLoop(vel, contacts, numcontacts, 1).bad

\* a floor test that accepts every upward-facing plane
IsFloor_any(n) == RGt(n.y, Zero)

\* if norm.y > 0.7 { hit_floor = true; }
IsFloor(n) == RGt(n.y, R(7, 10))

NoContacts == <<VZero, VZero, VZero, VZero>>

SlideStart(p, dt) ==
    [pos |-> p.pos, dt |-> dt, hit_floor |-> FALSE, numcontacts |-> 0,
     contacts |-> NoContacts, v |-> p.vel, done |-> FALSE, sweeps |-> <<>>,
     creased |-> FALSE, resolved |-> <<>>]

\* a contact resolution: the velocity it started from, the contacts held and
\* the velocity it left
Resolution(vel, contacts, numcontacts) ==
    [vel |-> vel, contacts |-> contacts, numcontacts |-> numcontacts,
     v |-> Resolve(vel, contacts, numcontacts)]

\* what one pass does with the result of its sweep
Advance(st, p, res) ==
    LET seen == Append(st.sweeps, res)
    IN  IF res.some
        THEN LET floor == st.hit_floor \/ IsFloor(res.norm)
             IN  IF RGt(res.toi, Zero)
                 THEN LET pos1 == VAdd(st.pos, VScale(VScale(st.v, res.toi), st.dt))
                          dt1 == RMul(st.dt, RSub(One, res.toi))
                      IN  IF RGe(res.toi, One)
                          THEN [st EXCEPT !.hit_floor = floor, !.numcontacts = 1,
                                          !.pos = pos1, !.dt = dt1,
                                          !.done = TRUE, !.sweeps = seen]
                          ELSE LET cs == [st.contacts EXCEPT ![1] = res.norm]
                               IN  [st EXCEPT !.hit_floor = floor, !.numcontacts = 1,
                                              !.pos = pos1, !.dt = dt1,
                                              !.contacts = cs,
                                              !.v = Resolve(p.vel, cs, 1),
                                              !.sweeps = seen,
                                              !.resolved =
                                                  Append(st.resolved,
                                                         Resolution(p.vel, cs, 1))]
                 ELSE LET n == st.numcontacts + 1
                          cs == [st.contacts EXCEPT ![n] = res.norm]
                      IN  [st EXCEPT !.hit_floor = floor, !.numcontacts = n,
                                     !.contacts = cs,
                                     !.v = Resolve(p.vel, cs, n),
                                     !.sweeps = seen,
                                     !.creased = st.creased \/ Creased(p.vel, cs, n),
                                     !.resolved =
                                         Append(st.resolved, Resolution(p.vel, cs, n))]
        ELSE [st EXCEPT !.pos = VAdd(st.pos, VScale(st.v, st.dt)),
                        !.done = TRUE, !.sweeps = seen]

\* one pass of `for _ in 0..3`; p.vel is the velocity the loop started with
SlideStep(st, p, t) ==
    IF st.done \/ approx_eq(st.dt, Zero) THEN [st EXCEPT !.done = TRUE]
    ELSE Advance(st, p, cast_ray(t, Ray(st.pos, VScale(st.v, st.dt), p.halfextents)))

Slide(p, t, dt) == SlideStep(SlideStep(SlideStep(SlideStart(p, dt), p, t), p, t), p, t)

\* pl.vel = v; ON_GROUND = hit_floor
Finish(p, st) ==
    [p EXCEPT !.pos = st.pos, !.vel = st.v,
              !.flags = IF st.hit_floor THEN p.flags \cup {PLAYER_ONGROUND}
                        ELSE p.flags \ {PLAYER_ONGROUND}]

move_player(p, t, ms, input, dt) ==
    LET q == PreSlide(p, input, ms, dt) IN Finish(q, Slide(q, t, dt))

----------------------------------------------------------------------------
(* the worlds *)

XAxis == Vec3(One, Zero, Zero)
YAxis == Vec3(Zero, One, Zero)
Slope == Vec3(R(3, 5), R(4, 5), Zero)

\* bsp.rs test::test_tree: solid where 0 < x <= 1 and y <= 1
test_tree ==
    Tree(<<InnerNode(Plane(XAxis, Zero), 1, -2),
           InnerNode(Plane(XAxis, One), -2, 2),
           InnerNode(Plane(YAxis, One), -2, -1)>>,
         <<TRUE, FALSE>>, 0)

\* map.rs test::single_plane_map: solid where y <= 0
single_plane_map ==
    Tree(<<InnerNode(Plane(YAxis, Zero), -1, -2)>>, <<FALSE, TRUE>>, 0)

\* a floor (solid where y <= 0) and, above it, a wall (solid where x <= -3/4)
floor_wall_map ==
    Tree(<<InnerNode(Plane(YAxis, Zero), 1, -2),
           InnerNode(Plane(XAxis, R(-3, 4)), -1, -2)>>,
         <<FALSE, TRUE>>, 0)

\* a ramp: solid where 3x/5 + 4y/5 <= 0
slope_map ==
    Tree(<<InnerNode(Plane(Slope, Zero), -1, -2)>>, <<FALSE, TRUE>>, 0)

\* a solid half-space x > 0, as in the spec's raycast scenarios
halfspace_tree ==
    Tree(<<InnerNode(Plane(XAxis, Zero), -1, -2)>>, <<TRUE, FALSE>>, 0)

\* a groove: two banks meeting at a sharp angle along the z axis, solid
\* where 4x/5 + 3y/5 <= 0 or -4x/5 + 3y/5 <= 0
LeftBank == Vec3(R(4, 5), R(3, 5), Zero)
RightBank == Vec3(R(-4, 5), R(3, 5), Zero)
groove_map ==
    Tree(<<InnerNode(Plane(LeftBank, Zero), 1, -2),
           InnerNode(Plane(RightBank, Zero), -1, -2)>>,
         <<FALSE, TRUE>>, 0)

TreeSet == {test_tree, single_plane_map, floor_wall_map, slope_map, halfspace_tree}

----------------------------------------------------------------------------
(* the game: one player stepped by move_player on a static map *)

\* settings.rs MoveSettings, with the airaccel and airspeed movement.rs reads
movesettings ==
    [gravity |-> I(3), accel |-> One, speedeps |-> Zero, maxspeed |-> R(9, 2),
     movespeed |-> I(3), jumpspeed |-> I(4), friction |-> I(5),
     airaccel |-> One, airspeed |-> I(3)]

PLAYER_HALFEXTENTS == Vec3(R(1, 2), R(1, 2), R(1, 2))

\* the player as the game constructs it: at the spawn point, at rest, no flags
SpawnPos == Vec3(Zero, I(2), Zero)
Spawned == Player(SpawnPos, VZero, PLAYER_HALFEXTENTS, {})

\* the player the spawned one becomes when left alone over a floor: standing
\* under the spawn point, at rest, ON_GROUND set
Standing ==
    Player(Vec3(SpawnPos.x, PLAYER_HALFEXTENTS.y, SpawnPos.z), VZero,
           PLAYER_HALFEXTENTS, {PLAYER_ONGROUND})

\* the players a game on the map t starts with
StartSet(t) ==
    IF IsFloor(InodeAt(t, t.root).plane.norm) THEN {Spawned, Standing} ELSE {Spawned}

MapSet == {single_plane_map, floor_wall_map, groove_map}

\* wishvel as the input layer builds it: a direction scaled by movespeed
WishSet ==
    {VZero, Vec3(RNeg(movesettings.movespeed), Zero, Zero),
     Vec3(Zero, Zero, movesettings.movespeed)}

InputSet == {MoveInput(w, j, r) : w \in WishSet, j \in BOOLEAN, r \in BOOLEAN}

\* the tick length handed to move_player
TickDt == One

MaxTicks == 4

\* what a move_player call did: the player it started from, its input,
\* whether the jump branch fired, the velocity after gravity and after the
\* post-clamp, the results of the sweeps, the contact resolutions, and the
\* loop's final state
NoTrace ==
    [before |-> Spawned, input |-> MoveInput(VZero, FALSE, FALSE), jumped |-> FALSE,
     unclamped |-> VZero, prevel |-> VZero, sweeps |-> <<>>, hit_floor |-> FALSE,
     creased |-> FALSE, dt |-> Zero, resolved |-> <<>>]

Unclamped(p, input, ms, dt) ==
    ApplyGravity(
        ApplyAccel(ApplyFriction(ApplyJump(ApplyReset(p, input), input, ms), ms, dt),
                   input, ms, dt),
        ms, dt)

\* the call's effect on the game, from its pre-slide player q and the final
\* state st of its collide-and-slide loop
Moved(input, q, st) ==
    /\ pl' = Finish(q, st)
    /\ trace' = [before |-> pl, input |-> input,
                  jumped |-> JumpFires(ApplyReset(pl, input), input),
                  unclamped |-> Unclamped(pl, input, movesettings, TickDt).vel,
                  prevel |-> q.vel, sweeps |-> st.sweeps,
                  hit_floor |-> st.hit_floor, creased |-> st.creased,
                  dt |-> st.dt, resolved |-> st.resolved]
    /\ held' = IF ~input.jump THEN 0
               ELSE held + (IF JumpFires(ApplyReset(pl, input), input) THEN 1 ELSE 0)

Slid(input, q) == Moved(input, q, Slide(q, tree, TickDt))

MovePlayer(input) ==
    /\ ticks < MaxTicks
    /\ Slid(input, PreSlide(pl, input, movesettings, TickDt))
    /\ ticks' = ticks + 1
    /\ UNCHANGED <<tree, ray, cast, point, inside>>

Init ==
    /\ tree \in MapSet
    /\ pl \in StartSet(tree)
    /\ ticks = 0
    /\ trace = NoTrace
    /\ held = 0
    /\ ray = Ray(VZero, VZero, VZero)
    /\ cast = [some |-> FALSE, toi |-> I(-1), norm |-> VZero]
    /\ point = VZero
    /\ inside = [done |-> FALSE, solid |-> FALSE]

Next == \E input \in InputSet : MovePlayer(input)

Spec == Init /\ [][Next]_vars

----------------------------------------------------------------------------
(* the queries *)

CoordMax == 3
DirMax == 3

Halves(m) == {R(k, 2) : k \in -m..m}
HalfExtentsSet == {VZero, Vec3(R(1, 2), R(1, 2), R(1, 2))}
PointSet == {Vec3(x, y, Zero) : x \in Halves(CoordMax), y \in Halves(CoordMax)}
DirSet == {Vec3(x, y, Zero) : x \in Halves(DirMax), y \in Halves(DirMax)}
RaySet == {Ray(o, d, h) : o \in PointSet, d \in DirSet, h \in HalfExtentsSet}

Pending == [some |-> FALSE, toi |-> I(-1), norm |-> VZero]
NotAsked == [done |-> FALSE, solid |-> FALSE]
Answer(b) == [done |-> TRUE, solid |-> b]

CastRay ==
    /\ cast = Pending
    /\ cast' = cast_ray(tree, ray)
    /\ UNCHANGED <<tree, pl, ticks, trace, held, ray, point, inside>>

ContainsPoint ==
    /\ inside = NotAsked
    /\ inside' = Answer(contains_point(tree, point))
    /\ UNCHANGED <<tree, pl, ticks, trace, held, ray, cast, point>>

InitBsp ==
    /\ tree \in TreeSet
    /\ ray \in RaySet
    /\ point \in {ray.orig, VAdd(ray.orig, ray.dir)}
    /\ cast = Pending
    /\ inside = NotAsked
    /\ pl = Spawned
    /\ ticks = 0
    /\ trace = NoTrace
    /\ held = 0

NextBsp == CastRay \/ ContainsPoint

SpecBsp == InitBsp /\ [][NextBsp]_vars

----------------------------------------------------------------------------
(* What a sweep is, stated on the geometry alone (not on the recursion of  *)
(* cast_ray): the box with half-extents h centred at c overlaps the region *)
(* of a leaf when it overlaps every half-space on the path to the leaf.    *)
(* For trees whose cells are boxes or single half-spaces, as all of        *)
(* TreeSet are, the two agree.                                             *)

BoxPad(plane, h) ==
    RAdd(RAdd(RAbs(RMul(h.x, plane.norm.x)), RAbs(RMul(h.y, plane.norm.y))),
         RAbs(RMul(h.z, plane.norm.z)))

SignedDistance(plane, p) == RSub(dot(p, plane.norm), plane.dist)

\* a time of impact is rounded to the nearest thousandth, so the position
\* it gives is off the plane by a few thousandths: distances are compared
\* up to this slack
Slack == R(1, 100)

\* the box touches the closure of a solid cell (up to the slack)
RECURSIVE Touches(_, _, _, _)
Touches(t, c, h, nodeidx) ==
    IF nodeidx < 0 THEN LeafAt(t, nodeidx)
    ELSE LET node == InodeAt(t, nodeidx)
             sd == SignedDistance(node.plane, c)
             pad == BoxPad(node.plane, h)
         IN  \/ RGe(RAdd(sd, pad), RNeg(Slack)) /\ Touches(t, c, h, node.pos)
             \/ RLe(RSub(sd, pad), Slack) /\ Touches(t, c, h, node.neg)

\* the box overlaps the interior of a solid cell by more than the slack
RECURSIVE Penetrates(_, _, _, _)
Penetrates(t, c, h, nodeidx) ==
    IF nodeidx < 0 THEN LeafAt(t, nodeidx)
    ELSE LET node == InodeAt(t, nodeidx)
             sd == SignedDistance(node.plane, c)
             pad == BoxPad(node.plane, h)
         IN  \/ RGt(RAdd(sd, pad), Slack) /\ Penetrates(t, c, h, node.pos)
             \/ RLt(RSub(sd, pad), RNeg(Slack)) /\ Penetrates(t, c, h, node.neg)

At(r, time) == VAdd(r.orig, VScale(r.dir, time))

InUnit(q) == RGe(q, Zero) /\ RLe(q, One)

\* the times in [0, 1] at which the box's support reaches a plane of the tree
CrossTimes(t, r) ==
    LET NodeTimes(node) ==
            LET ds == SignedDistance(node.plane, r.orig)
                de == SignedDistance(node.plane, VAdd(r.orig, r.dir))
                pad == BoxPad(node.plane, r.halfextents)
            IN  IF ds = de THEN {}
                ELSE {q \in {RDiv(RSub(pad, ds), RSub(de, ds)),
                              RDiv(RSub(RNeg(pad), ds), RSub(de, ds))} : InUnit(q)}
    IN  {Zero, One} \cup UNION {NodeTimes(t.inodes[i]) : i \in DOMAIN t.inodes}

\* the crossing times and a time strictly between any two of them
SampleTimes(t, r) ==
    LET c == CrossTimes(t, r)
    IN  c \cup {RDiv(RAdd(a, b), I(2)) : a \in c, b \in c}

\* the plane normals the box's support lies on at the given time
NormalsAt(t, r, time) ==
    {t.inodes[i].plane.norm : i \in
        {j \in DOMAIN t.inodes :
            RLe(RAbs(RSub(RAbs(SignedDistance(t.inodes[j].plane, At(r, time))),
                          BoxPad(t.inodes[j].plane, r.halfextents))), Slack)}}

\* the result the claim allows for the sweep: contacts on a boundary may be
\* counted or not
EarliestContact(t, r, res) ==
    IF res.some
    THEN /\ InUnit(res.toi)
         /\ Touches(t, At(r, res.toi), r.halfextents, t.root)
         /\ \A q \in SampleTimes(t, r) :
                RLt(q, res.toi) => ~Penetrates(t, At(r, q), r.halfextents, t.root)
         /\ res.norm \in NormalsAt(t, r, res.toi)
    ELSE \A q \in SampleTimes(t, r) : ~Penetrates(t, At(r, q), r.halfextents, t.root)

StartsClear == ~Touches(tree, ray.orig, ray.halfextents, tree.root)

\* C1: cast_ray returns the earliest contact of the sweep, its toi a fraction
\* of the original ray's dir and its normal that of the plane reached there,
\* and nothing when the sweep reaches no solid leaf.  Stated for the sweeps
\* that start clear of every solid leaf, where "first reaches" has one reading.
C1_EarliestContact ==
    (cast # Pending /\ StartsClear) => EarliestContact(tree, ray, cast)

\* the leaf reached from the root: pos when the signed distance n.p - d is
\* strictly positive, neg otherwise
RECURSIVE DescendLeaf(_, _, _)
DescendLeaf(t, p, nodeidx) ==
    IF nodeidx < 0 THEN nodeidx
    ELSE LET node == InodeAt(t, nodeidx)
         IN  IF RGt(SignedDistance(node.plane, p), Zero)
             THEN DescendLeaf(t, p, node.pos)
             ELSE DescendLeaf(t, p, node.neg)

\* C7: contains_point returns the solid flag of the leaf reached by descending
\* from the root, a point exactly on a plane going to the negative side.
C7_ContainsPointDescends ==
    inside.done => inside.solid = LeafAt(tree, DescendLeaf(tree, point, tree.root))

\* C7's case: a point on a plane whose two sides differ was classified
C7_Witness ==
    /\ inside.done
    /\ inside.solid
    /\ SignedDistance(InodeAt(tree, tree.root).plane, point) = Zero
    /\ tree = single_plane_map

PlaneNormals(t) == {t.inodes[i].plane.norm : i \in DOMAIN t.inodes}

InPadBand(t, r) ==
    \E i \in DOMAIN t.inodes :
        /\ RLt(RAbs(StartDist(t.inodes[i].plane, r)), Pad(t.inodes[i].plane, r))
        /\ r.dir # VZero

\* C8: a result of cast_ray has 0 <= toi <= 1 and the unit normal of one of
\* the tree's planes.
C8_ResultInRange ==
    cast.some =>
        /\ RGe(cast.toi, Zero)
        /\ RLe(cast.toi, One)
        /\ cast.norm \in PlaneNormals(tree)
        /\ dot(cast.norm, cast.norm) = One

\* C8's case: a result for a sweep that starts inside a plane's pad band
C8_Witness == cast.some /\ InPadBand(tree, ray) /\ ray.halfextents # VZero

\* C9: a sweep with dir = 0 reports nothing, whatever the tree, the origin and
\* the half-extents.
C9_ZeroSweepAbsent == (cast # Pending /\ ray.dir = VZero) => ~cast.some

----------------------------------------------------------------------------
(* move_player, tick by tick *)

Extents == pl.halfextents

\* the player a tick started from, after its input.reset
Start == ApplyReset(trace.before, trace.input)

\* C2: a player whose position is in a non-solid leaf before a move_player
\* call is in a non-solid leaf after it.
C2_NoPenetration ==
    (ticks >= 1 /\ ~contains_point(tree, trace.before.pos))
        => ~contains_point(tree, pl.pos)

\* C3: while input.jump stays true the jump impulse is applied at most once,
\* even when the player lands again with the button still held.
C3_JumpLatch == held <= 1

\* C4: after every move_player call the speed is at most maxspeed, up to the
\* rounding of the last multiplication (1/100).
C4_SpeedCap ==
    ticks >= 1 => RLe(norm(pl.vel), RAdd(movesettings.maxspeed, R(1, 100)))

\* C4's case: the velocity after gravity exceeded maxspeed and the contact
\* resolution took the two-contact crease branch
C4_Witness ==
    /\ ticks >= 1
    /\ trace.creased
    /\ RGt(norm(trace.unclamped), movesettings.maxspeed)

\* some sweep of the latest tick reported a contact whose normal has y > 0.7
FloorContact ==
    \E i \in DOMAIN trace.sweeps :
        trace.sweeps[i].some /\ RGt(trace.sweeps[i].norm.y, R(7, 10))

\* C5: at the end of every move_player call ON_GROUND is set exactly when
\* some sweep of that call reported a contact whose normal has y > 0.7.
C5_GroundFlag ==
    ticks >= 1 => ((PLAYER_ONGROUND \in pl.flags) <=> FloorContact)

\* C5's case: a tick whose sweeps reported a contact, none of them
\* floor-like, and that ended with ON_GROUND clear
C5_Witness ==
    /\ ticks >= 1
    /\ PLAYER_ONGROUND \notin pl.flags
    /\ ~FloorContact
    /\ \E i \in DOMAIN trace.sweeps : trace.sweeps[i].some

\* an airborne player above the floor of the single-plane map whose downward
\* motion in the tick carries the box through the floor
Landing ==
    /\ ticks >= 1
    /\ tree = single_plane_map
    /\ PLAYER_ONGROUND \notin trace.before.flags
    /\ RGt(RSub(Start.pos.y, Extents.y), Zero)
    /\ RLt(RAdd(Start.pos.y, RMul(trace.prevel.y, TickDt)), Zero)

\* the difference of a and b is at most 5/1000, the rounding of a product
Near(a, b) == RLe(RAbs(RSub(a, b)), R(1, 200))

\* C6 as stated: the landing tick ends with the box bottom on the floor,
\* vel.y = 0 and ON_GROUND set.
C6_LandsAtRest ==
    Landing =>
        /\ Near(pl.pos.y, Extents.y)
        /\ pl.vel.y = Zero
        /\ PLAYER_ONGROUND \in pl.flags

\* C6 as the code has it: the landing tick ends with ON_GROUND set and either
\* with vel = 0 (the guard of line 172 fired) or with the horizontal velocity
\* kept and vel.y the overbounce 0.01 * |vel.y before the contact|, the box
\* bottom between the floor and the height that overbounce lifts it to in
\* the rest of the tick.
C6_LandsWithOverbounce ==
    Landing =>
        /\ PLAYER_ONGROUND \in pl.flags
        /\ \/ pl.vel = VZero
           \/ /\ pl.vel.x = trace.prevel.x
              /\ pl.vel.z = trace.prevel.z
              /\ RGt(pl.vel.y, Zero)
              /\ Near(pl.vel.y, RMul(R(1, 100), RAbs(trace.prevel.y)))
        /\ RGe(pl.pos.y, RSub(Extents.y, R(1, 200)))
        /\ RLe(pl.pos.y, RAdd(RAdd(Extents.y, RMul(pl.vel.y, trace.dt)), R(1, 200)))

\* C6's case: a landing that keeps its horizontal velocity
C6_Witness == Landing /\ pl.vel.y # Zero /\ pl.vel.x # Zero

\* standing on a floor: ON_GROUND set, at rest, the box bottom on the plane
\* of the root node, which is floor-like
AtRest(p) ==
    LET floor == InodeAt(tree, tree.root).plane
    IN  /\ PLAYER_ONGROUND \in p.flags
        /\ p.vel = VZero
        /\ RGt(floor.norm.y, R(7, 10))
        /\ SignedDistance(floor, p.pos) = BoxPad(floor, p.halfextents)

Idle(input) == input.wishvel = VZero /\ ~input.jump /\ ~input.reset

\* C10: a tick with no input leaves a player standing at rest on a floor as
\* it was: pos and vel unchanged, ON_GROUND set.
C10_RestFixedPoint ==
    (ticks >= 1 /\ AtRest(trace.before) /\ Idle(trace.input)) => pl = trace.before

\* C10's case: an idle tick of a player at rest, after an earlier idle tick
\* at rest
C10_Witness ==
    /\ ticks >= 2
    /\ AtRest(trace.before)
    /\ Idle(trace.input)
    /\ AtRest(pl)

----------------------------------------------------------------------------
(* the jump impulse *)

\* the player of the latest tick right after its jump branch
Jumped == ApplyJump(Start, trace.input, movesettings)

RMax(a, b) == IF RGe(a, b) THEN a ELSE b

\* C11: when the jump branch fires vel.y becomes
\* max(vel.y + jumpspeed, jumpspeed), and ON_GROUND is cleared before the
\* parameters are selected: the rest of the tick runs on airaccel, zero
\* friction and airspeed.
C11_JumpImpulse ==
    (ticks >= 1 /\ trace.jumped) =>
        /\ Jumped.vel.y = RMax(RAdd(Start.vel.y, movesettings.jumpspeed),
                               movesettings.jumpspeed)
        /\ PLAYER_ONGROUND \notin Jumped.flags
        /\ SelAccel(Jumped, movesettings) = movesettings.airaccel
        /\ SelFriction(Jumped, movesettings) = Zero
        /\ SelSpeedcap(Jumped, movesettings) = movesettings.airspeed

----------------------------------------------------------------------------
(* trees as they are built: Tree is a plain struct with public fields,     *)
(* built by a struct literal (or decoded); bsp.rs has no constructor and   *)
(* no validation.  The queries below are the same code as above, with what *)
(* Vec indexing and the call stack do on a tree that is not well formed:   *)
(* an index past the end of a Vec panics, a recursion that comes back to   *)
(* the same call never returns.                                            *)

\* i as usize is a valid index of the Vec v (a negative i32 wraps to a huge usize)
InBounds(v, i) == i >= 0 /\ i < Len(v)

Panicked == "index out of bounds"
Overflowed == "stack overflow"

\* what a query did: returned a value, or died of a fault
Returned(b) == [fault |-> "none", solid |-> b]
Died(f) == [fault |-> f, solid |-> FALSE]

\* contains_point_recursive; seen holds the nodes of the calls on the stack
RECURSIVE contains_point_outcome(_, _, _, _)
contains_point_outcome(t, p, nodeidx, seen) ==
    IF ~InBounds(t.inodes, nodeidx) THEN Died(Panicked)
    ELSE IF nodeidx \in seen THEN Died(Overflowed)
    ELSE LET node == InodeAt(t, nodeidx)
             dir == VSub(p, point_on(node.plane))
             child == IF RGt(dot(dir, node.plane.norm), Zero) THEN node.pos ELSE node.neg
         IN  IF child < 0
             THEN (IF InBounds(t.leaves, -child - 1) THEN Returned(LeafAt(t, child))
                   ELSE Died(Panicked))
             ELSE contains_point_outcome(t, p, child, seen \cup {nodeidx})

\* cast_ray_recursive; seen holds the <<node, ray>> of the calls on the stack
RECURSIVE cast_ray_outcome(_, _, _, _, _)
cast_ray_outcome(t, r, nodeidx, best, seen) ==
    IF nodeidx < 0
    THEN (IF InBounds(t.leaves, -nodeidx - 1)
          THEN [fault |-> "none", hit |-> LeafAt(t, nodeidx), best |-> best]
          ELSE [fault |-> Panicked, hit |-> FALSE, best |-> best])
    ELSE IF ~InBounds(t.inodes, nodeidx)
    THEN [fault |-> Panicked, hit |-> FALSE, best |-> best]
    ELSE IF <<nodeidx, r>> \in seen
    THEN [fault |-> Overflowed, hit |-> FALSE, best |-> best]
    ELSE
      LET node == InodeAt(t, nodeidx)
          pltest == test_ray(node.plane, r)
          stack == seen \cup {<<nodeidx, r>>}
      IN  CASE pltest.kind = "Front" -> cast_ray_outcome(t, r, node.pos, best, stack)
            [] pltest.kind = "Back" -> cast_ray_outcome(t, r, node.neg, best, stack)
            [] OTHER ->
                 LET sub == SubRays(node.plane, r, pltest.toi)
                     first == cast_ray_outcome(t, sub[1], node.pos, best, stack)
                     last == IF first.hit \/ first.fault # "none" THEN first
                             ELSE cast_ray_outcome(t, sub[2], node.neg, first.best, stack)
                 IN  IF last.fault # "none" THEN last
                     ELSE IF last.hit
                     THEN [fault |-> "none", hit |-> TRUE,
                           best |-> visit_plane(last.best, pltest.toi, node.plane.norm)]
                     ELSE [fault |-> "none", hit |-> FALSE, best |-> last.best]

\* the structural invariants of a tree
InodeIndices(t) == 0 .. (Len(t.inodes) - 1)

ChildOk(t, c) ==
    IF c < 0 THEN InBounds(t.leaves, -c - 1) ELSE InBounds(t.inodes, c)

InnerChildren(t, i) ==
    {c \in {InodeAt(t, i).pos, InodeAt(t, i).neg} : c >= 0}

\* the inner nodes reached from the inner node i in 1..k steps
RECURSIVE Below(_, _, _)
Below(t, i, k) ==
    IF k = 0 THEN {}
    ELSE LET cs == InnerChildren(t, i)
         IN  cs \cup UNION {Below(t, c, k - 1) : c \in cs}

WellFormed(t) ==
    /\ Len(t.inodes) > 0
    /\ Len(t.leaves) > 0
    /\ InBounds(t.inodes, t.root)
    /\ \A i \in InodeIndices(t) :
           /\ ChildOk(t, InodeAt(t, i).pos)
           /\ ChildOk(t, InodeAt(t, i).neg)
           /\ dot(InodeAt(t, i).plane.norm, InodeAt(t, i).plane.norm) = One
    /\ \A i \in InodeIndices(t) : i \notin Below(t, i, Len(t.inodes))

\* trees that break one invariant each
child_past_inodes ==
    Tree(<<InnerNode(Plane(YAxis, Zero), 1, -2)>>, <<FALSE, TRUE>>, 0)
child_past_leaves ==
    Tree(<<InnerNode(Plane(YAxis, Zero), -1, -3)>>, <<FALSE, TRUE>>, 0)
negative_root ==
    Tree(<<InnerNode(Plane(YAxis, Zero), -1, -2)>>, <<FALSE, TRUE>>, -1)
empty_tree == Tree(<<>>, <<>>, 0)
cyclic_tree ==
    Tree(<<InnerNode(Plane(YAxis, Zero), 0, -2)>>, <<FALSE, TRUE>>, 0)
stretched_normal ==
    Tree(<<InnerNode(Plane(Vec3(Zero, I(2), Zero), Zero), -1, -2)>>, <<FALSE, TRUE>>, 0)

MalformedSet ==
    {child_past_inodes, child_past_leaves, negative_root, empty_tree, cyclic_tree,
     stretched_normal}

\* the struct literals a program can write
BuiltSet == TreeSet \cup MalformedSet

RayFault(f) == [some |-> FALSE, toi |-> Zero, norm |-> VZero, fault |-> f]
PointFault(f) == [done |-> TRUE, solid |-> FALSE, fault |-> f]

\* tree.cast_ray(&ray) on a tree as built
QueryRay ==
    /\ cast = Pending
    /\ LET out == cast_ray_outcome(tree, ray, tree.root, None, {})
       IN  cast' = IF out.fault = "none" THEN out.best ELSE RayFault(out.fault)
    /\ UNCHANGED <<tree, pl, ticks, trace, held, ray, point, inside>>

\* tree.contains_point(&point) on a tree as built
QueryPoint ==
    /\ inside = NotAsked
    /\ LET out == contains_point_outcome(tree, point, tree.root, {})
       IN  inside' = IF out.fault = "none" THEN Answer(out.solid)
                     ELSE PointFault(out.fault)
    /\ UNCHANGED <<tree, pl, ticks, trace, held, ray, cast, point>>

InitBuilt ==
    /\ tree \in BuiltSet
    /\ ray \in RaySet
    /\ point \in {ray.orig, VAdd(ray.orig, ray.dir)}
    /\ cast = Pending
    /\ inside = NotAsked
    /\ pl = Spawned
    /\ ticks = 0
    /\ trace = NoTrace
    /\ held = 0

NextBuilt == QueryRay \/ QueryPoint

SpecBuilt == InitBuilt /\ [][NextBuilt]_vars

\* a query ran to its end on the tree, or died inside it
Queried == inside.done \/ cast # Pending

\* C12: no query is ever executed on a malformed tree: a tree that breaks a
\* structural invariant is rejected when it is built.
C12_MalformedRejected == Queried => WellFormed(tree)

----------------------------------------------------------------------------
(* the calls cast_ray_recursive makes at the planes a sweep straddles *)

\* the Span arms the recursion runs on the ray r from the node nodeidx, each
\* with the node's plane, the ray it was given, the split point, and the
\* sub-rays it casts into the pos child and into the neg child (the latter
\* only when the former found nothing solid)
RECURSIVE SpanArms(_, _, _)
SpanArms(t, r, nodeidx) ==
    IF nodeidx < 0 THEN {}
    ELSE
      LET node == InodeAt(t, nodeidx)
          pltest == test_ray(node.plane, r)
      IN  CASE pltest.kind = "Front" -> SpanArms(t, r, node.pos)
            [] pltest.kind = "Back" -> SpanArms(t, r, node.neg)
            [] OTHER ->
                 LET sub == SubRays(node.plane, r, pltest.toi)
                 IN  {[plane |-> node.plane, ray |-> r, toi |-> pltest.toi,
                       topos |-> sub[1], toneg |-> sub[2]]}
                     \cup SpanArms(t, sub[1], node.pos)
                     \cup (IF cast_ray_recursive(t, sub[1], node.pos, None).hit THEN {}
                           ELSE SpanArms(t, sub[2], node.neg))

\* the arm gives the part of its ray before the split point to the child on
\* the side the ray starts on, and the part after it to the other child
NearFirst(arm) ==
    LET s == split(arm.ray, arm.toi)
    IN  IF RLt(StartDist(arm.plane, arm.ray), EndDist(arm.plane, arm.ray))
        THEN arm.toneg = s[1] /\ arm.topos = s[2]
        ELSE arm.topos = s[1] /\ arm.toneg = s[2]

\* the ray r stays in the closed half-space of the plane on the given side,
\* the box's reach and the rounding of the split point allowed for
LiesOn(plane, r, positive) ==
    LET pad == RAdd(Pad(plane, r), Slack)
        d1 == StartDist(plane, r)
        d2 == EndDist(plane, r)
    IN  IF positive THEN RGe(d1, RNeg(pad)) /\ RGe(d2, RNeg(pad))
        ELSE RLe(d1, pad) /\ RLe(d2, pad)

\* C13: at every plane the sweep straddles, the part before the split point
\* goes to the child on the side where the sweep starts (neg when the start
\* distance is smaller than the end distance, pos otherwise), the part after
\* it to the other child, and each part lies in the half-space of the child
\* it is tested against.
C13_NearChildFirst ==
    cast # Pending =>
        \A arm \in SpanArms(tree, ray, tree.root) :
            StartDist(arm.plane, arm.ray) # EndDist(arm.plane, arm.ray) =>
                /\ NearFirst(arm)
                /\ LiesOn(arm.plane, arm.topos, TRUE)
                /\ LiesOn(arm.plane, arm.toneg, FALSE)

----------------------------------------------------------------------------
(* the acceleration step on its own: a player with some velocity and       *)
(* ground state, a wishvel and a dt, and the step applied once             *)

VelMax == 4

\* velocities: any horizontal velocity on the integer grid, level or falling
VelSet ==
    {Vec3(I(x), y, I(z)) : x \in -VelMax..VelMax, y \in {Zero, I(-1)},
                           z \in -VelMax..VelMax}

\* wishvel: no wish, or a direction (along an axis, or oblique) at half the
\* speed cap, at the cap, or at twice the cap
WishDirs ==
    {Vec3(One, Zero, Zero), Vec3(I(-1), Zero, Zero), Vec3(Zero, Zero, One),
     Vec3(Zero, Zero, I(-1)), Vec3(R(3, 5), Zero, R(4, 5))}
WishVelSet ==
    {VZero} \cup {VScale(d, m) : d \in WishDirs, m \in {R(3, 2), I(3), I(6)}}

DtSet == {Zero, R(1, 2), One}

Accelerate ==
    /\ ticks = 0
    /\ pl' = ApplyAccel(pl, trace.input, movesettings, trace.dt)
    /\ ticks' = 1
    /\ UNCHANGED <<tree, trace, held, ray, cast, point, inside>>

InitAccel ==
    /\ tree = single_plane_map
    /\ pl \in {Player(SpawnPos, v, PLAYER_HALFEXTENTS, f) :
                  v \in VelSet, f \in {{}, {PLAYER_ONGROUND}}}
    /\ ticks = 0
    /\ trace \in {[NoTrace EXCEPT !.before = pl,
                                  !.input = MoveInput(w, FALSE, FALSE),
                                  !.dt = d] : w \in WishVelSet, d \in DtSet}
    /\ held = 0
    /\ ray = Ray(VZero, VZero, VZero)
    /\ cast = Pending
    /\ point = VZero
    /\ inside = NotAsked

NextAccel == Accelerate

SpecAccel == InitAccel /\ [][NextAccel]_vars

\* the quantities of the step, from its inputs
Wishspeed ==
    clamp(norm(trace.input.wishvel), Zero, SelSpeedcap(trace.before, movesettings))
Movedir == normalize(trace.input.wishvel)
Maxdelta ==
    RMul(RMul(SelAccel(trace.before, movesettings), movesettings.movespeed), trace.dt)
CurAlong == dot(trace.before.vel, Movedir)
NewAlong == dot(pl.vel, Movedir)

\* the step ran with a wish
Accelerated == ticks = 1 /\ Wishspeed # Zero

\* the wish is at a right angle to the velocity
Perpendicular ==
    trace.input.wishvel # VZero /\ dot(trace.before.vel, trace.input.wishvel) = Zero

\* the velocity changed by movedir * addspeed with 0 <= addspeed <= maxdelta;
\* the component along movedir did not decrease, did not rise above
\* wishspeed from below it, and was left alone at or above wishspeed
\* (each up to the rounding of the products)
NeverDecelerates ==
    Accelerated =>
        /\ LET added == VSub(pl.vel, trace.before.vel)
                addspeed == dot(added, Movedir)
                along == VScale(Movedir, addspeed)
            IN  /\ RGe(addspeed, RNeg(R(1, 200)))
                /\ RLe(addspeed, RAdd(Maxdelta, R(1, 200)))
                /\ Near(added.x, along.x) /\ Near(added.y, along.y)
                /\ Near(added.z, along.z)
        /\ RGe(NewAlong, RSub(CurAlong, R(1, 200)))
        /\ RLt(CurAlong, Wishspeed) => RLe(NewAlong, RAdd(Wishspeed, R(1, 200)))
        /\ RGe(CurAlong, Wishspeed) => pl.vel = trace.before.vel

\* C14 as stated: the step never decelerates, for every dt >= 0, and with
\* wishvel perpendicular to the velocity the speed strictly increases.
C14_NeverDecelerates ==
    /\ NeverDecelerates
    /\ (ticks = 1 /\ Perpendicular) => RGt(norm(pl.vel), norm(trace.before.vel))

\* C14 as the code has it: the step never decelerates; with wishvel
\* perpendicular to the velocity the speed strictly increases when dt > 0,
\* and with dt = 0 the step changes nothing.
C14_NeverDeceleratesInTime ==
    /\ NeverDecelerates
    /\ (ticks = 1 /\ Perpendicular /\ RGt(trace.dt, Zero))
           => RGt(norm(pl.vel), norm(trace.before.vel))
    /\ (ticks = 1 /\ trace.dt = Zero) => pl.vel = trace.before.vel

\* C14's case: a moving player accelerated at a right angle to its velocity
C14_Witness ==
    /\ ticks = 1
    /\ Perpendicular
    /\ trace.before.vel # VZero
    /\ RGt(trace.dt, Zero)
    /\ pl.vel # trace.before.vel

----------------------------------------------------------------------------
(* the contact resolution *)

\* v does not move into the plane of normal n, up to the rounding of a product
NotInto(v, n) == RGe(dot(v, n), RNeg(R(1, 200)))

\* the resolution left a velocity that moves into none of its contacts, or zero
NonSeparating(r) ==
    r.v = VZero \/ \A j \in 1..r.numcontacts : NotInto(r.v, r.contacts[j])

\* C15: after the contact resolution of any slide iteration the resolved
\* velocity v has v.n >= 0 for every contact normal held, or v is zero, also
\* when the velocity the loop started with points away from a contact.
C15_NonSeparating ==
    ticks >= 1 => \A i \in DOMAIN trace.resolved : NonSeparating(trace.resolved[i])

====
